---- MODULE Spec2Model ----
(***************************************************************************)
(* Heap-based CPU scheduling simulator.                                    *)
(*                                                                         *)
(* Two engines are modelled side by side:                                  *)
(*   impl = 1   scheduler_code.py     ProcessScheduler.schedule            *)
(*   impl = 2   scheduler_code_rr.py  ProcessScheduler._heap_based_schedule*)
(*                                    and ProcessScheduler._round_robin    *)
(* One action is one phase of one iteration of the scheduling loop         *)
(* (admission, preemption check, dispatch, execution), so that the states  *)
(* between the phases of an iteration are states of the model too.         *)
(*                                                                         *)
(* A process id "P<n>" is modelled by the digit n (1..9): for one-digit    *)
(* suffixes Python's string order on the ids is the numeric order on n.    *)
(* The cosmetic process_type field has no effect on scheduling and is left *)
(* out of the records.                                                     *)
(***************************************************************************)
EXTENDS Integers, Sequences, FiniteSets, TLC

\* ------------------------------------------------------------------ bounds
MaxProcs == 3
MaxArrival == 2
MaxBurst == 2
MaxPriority == 2
MaxQuantum == 2
\* Iterations the model lets a run go on past the tick at which a run on
\* fresh records must have ended (a run that is still looping then is cut).
ExtraTicks == 2

\* ------------------------------------------------------- program constants
\* Python's None for start, finish and response_time; 0 stands for None where
\* a process reference is expected (running, last_process).
NoneVal == -1
DefaultQuantum == 2

Algorithms1 == {"priority", "sjf", "fcfs"}
Modes == {"preemptive", "non-preemptive"}

\* ------------------------------------------------------------- Process
\* Process.__init__: the record of a newly constructed process.
Process(pid, arrival, burst, priority) ==
  [pid |-> pid, arrival |-> arrival, burst |-> burst, priority |-> priority,
   remaining |-> burst, start |-> NoneVal, finish |-> NoneVal,
   waiting |-> 0, turnaround |-> 0, response_time |-> NoneVal,
   context_switches |-> 0, execution_history |-> <<>>, state |-> "NEW"]

\* Process.calculate_metrics of scheduler_code.py.
CalculateMetrics1(p) ==
  IF p.start # NoneVal /\ p.finish # NoneVal
  THEN [p EXCEPT !.waiting = p.start - p.arrival,
                 !.turnaround = p.finish - p.arrival,
                 !.response_time = p.start - p.arrival]
  ELSE p

\* Mutant of CalculateMetrics2: the turnaround is counted from the start.
CalculateMetrics2FromStart(p) ==
  IF p.start # NoneVal /\ p.finish # NoneVal
  THEN LET active_time == Len(p.execution_history)
           turnaround == p.finish - p.start
       IN [p EXCEPT !.turnaround = turnaround,
                    !.waiting = turnaround - active_time,
                    !.response_time = IF p.response_time = NoneVal
                                      THEN p.start - p.arrival
                                      ELSE p.response_time]
  ELSE p

\* Process.calculate_metrics of scheduler_code_rr.py.
CalculateMetrics2(p) ==
  IF p.start # NoneVal /\ p.finish # NoneVal
  THEN LET active_time == Len(p.execution_history)
           turnaround == p.finish - p.arrival
       IN [p EXCEPT !.turnaround = turnaround,
                    !.waiting = turnaround - active_time,
                    !.response_time = IF p.response_time = NoneVal
                                      THEN p.start - p.arrival
                                      ELSE p.response_time]
  ELSE p

CalculateMetrics(im, p) ==
  IF im = 1 THEN CalculateMetrics1(p) ELSE CalculateMetrics2(p)

\* ------------------------------------------------- sorted(processes, key)
\* list.sort is stable: p goes behind every element whose arrival is <= its own.
SortedInsert(s, p) ==
  LET k == Cardinality({i \in 1..Len(s) : s[i].arrival <= p.arrival})
  IN SubSeq(s, 1, k) \o <<p>> \o SubSeq(s, k + 1, Len(s))

RECURSIVE SortByArrivalUpTo(_, _)
SortByArrivalUpTo(b, n) ==
  IF n = 0 THEN <<>> ELSE SortedInsert(SortByArrivalUpTo(b, n - 1), b[n])

SortByArrival(b) == SortByArrivalUpTo(b, Len(b))

\* ------------------------------------------------------------ heapq
\* Mutant of HeapEntry: the priority and sjf tuples carry no pid, so equal keys
\* are not told apart by id.
HeapEntryNoPid(alg, p, i) ==
  CASE alg = "priority" -> <<0 - p.priority, p.arrival, i>>
    [] alg = "sjf" -> <<p.remaining, p.arrival, i>>
    [] alg = "fcfs" -> <<p.arrival, p.pid, i>>
    [] OTHER -> <<>>

\* Mutant of HeapEntry: the fcfs tuple has its two key fields swapped.
HeapEntryFcfsPidFirst(alg, p, i) ==
  CASE alg = "priority" -> <<0 - p.priority, p.arrival, p.pid, i>>
    [] alg = "sjf" -> <<p.remaining, p.arrival, p.pid, i>>
    [] alg = "fcfs" -> <<p.pid, p.arrival, i>>
    [] OTHER -> <<>>

\* The tuple pushed on the ready heap for the process at index i; <<>> when
\* no branch of the if/elif chain matches the algorithm (nothing is pushed).
HeapEntry(alg, p, i) ==
  CASE alg = "priority" -> <<0 - p.priority, p.arrival, p.pid, i>>
    [] alg = "sjf" -> <<p.remaining, p.arrival, p.pid, i>>
    [] alg = "fcfs" -> <<p.arrival, p.pid, i>>
    [] OTHER -> <<>>

\* Python's tuple order on the key fields (all but the trailing process).
RECURSIVE TupleLessFrom(_, _, _)
TupleLessFrom(a, b, k) ==
  IF k >= Len(a) THEN FALSE
  ELSE IF a[k] < b[k] THEN TRUE
  ELSE IF a[k] > b[k] THEN FALSE
  ELSE TupleLessFrom(a, b, k + 1)

TupleLess(a, b) == TupleLessFrom(a, b, 1)

\* Position of heap[0], the smallest tuple (the first one among equal keys).
HeapMinPos(h) ==
  CHOOSE i \in 1..Len(h) :
    /\ \A j \in 1..Len(h) : ~TupleLess(h[j], h[i])
    /\ \A j \in 1..(i - 1) : TupleLess(h[i], h[j])

HeapTop(h) == h[HeapMinPos(h)]

HeapPush(h, e) == IF e = <<>> THEN h ELSE Append(h, e)

\* Mutant of HeapPopRest: the smallest tuple is read but stays in the heap.
HeapPopRestKeepsTop(h) == h

\* heapq.heappop: the heap without its smallest tuple.
HeapPopRest(h) ==
  LET m == HeapMinPos(h)
  IN SubSeq(h, 1, m - 1) \o SubSeq(h, m + 1, Len(h))

\* The process a heap tuple carries (its last field).
EntryProc(e) == e[Len(e)]

\* ------------------------------------------------------- ProcessScheduler
VARIABLES
  impl,              \* 1: scheduler_code.py, 2: scheduler_code_rr.py
  mode, algorithm, quantum,
  processes,         \* self.processes: the records, sorted by arrival
  completed,         \* self.completed: indices into processes, in completion order
  context_switches, cpu_utilization, throughput, idle_time, execution_log,
  clock, ready, process_index, running, last_process,   \* locals of schedule()
  pc,                \* position in schedule()
  idle_ticks,        \* history variable: the ticks at which idle_time was incremented
  run_no,            \* number of the current schedule() call on this process list
  origin,            \* how the records of the current call were obtained:
                     \* "new" (constructed by the caller), "copy" (fresh copies of
                     \* the previous call's list), "same" (the previous call's records)
  prev,              \* outcome and origin of the previous schedule() call, <<>> if none
  gui_running,       \* SchedulerGUI.running
  workers,           \* the threads started by run_scheduler_thread, in start order:
                     \* position in run_scheduler_animated and, while another
                     \* thread's scheduler is the one stepping, the own scheduler
  active,            \* the worker whose scheduler the scheduler variables hold, 0 if none
  switches           \* number of times the processor went from one worker inside
                     \* schedule() to another

cfgVars == <<impl, mode, algorithm, quantum>>
schedVars == <<completed, context_switches, cpu_utilization, throughput, idle_time,
               execution_log, idle_ticks>>
localVars == <<clock, ready, process_index, running, last_process>>
guiVars == <<gui_running, workers, active, switches>>
progVars == <<run_no, origin, prev, guiVars>>
vars == <<cfgVars, processes, schedVars, localVars, pc, progVars>>

\* ------------------------------------------------------------- inputs
Perms(n) == {f \in [1..n -> 1..n] : \A i, j \in 1..n : i # j => f[i] # f[j]}

ArrivalSeqs(n) ==
  {a \in [1..n -> 0..MaxArrival] : \A i \in 1..(n - 1) : a[i] <= a[i + 1]}

\* Batches of n valid records with distinct ids, listed by arrival (ties in any
\* id order): each is a list sorted() leaves as it is.
BatchesOfLen(n) ==
  {[i \in 1..n |-> Process(f[i], a[i], b[i], q[i])] :
     f \in Perms(n), a \in ArrivalSeqs(n),
     b \in [1..n -> 1..MaxBurst], q \in [1..n -> 1..MaxPriority]}

\* P1(arrival=0, burst=4, priority=2), P2(arrival=1, burst=3, priority=3).
ScenarioPriority == <<Process(1, 0, 4, 2), Process(2, 1, 3, 3)>>
\* The same two processes given in the opposite order.
ScenarioUnsorted == <<Process(2, 1, 3, 3), Process(1, 0, 4, 2)>>
\* P1(arrival=0, burst=5), P2(arrival=1, burst=3).
ScenarioRR == <<Process(1, 0, 5, 1), Process(2, 1, 3, 1)>>

Batches ==
  UNION {BatchesOfLen(n) : n \in 0..MaxProcs}
    \cup {ScenarioPriority, ScenarioUnsorted, ScenarioRR}

\* (impl, algorithm, mode, quantum). scheduler_code.py has no quantum; in
\* scheduler_code_rr.py only "rr" reads it.
Configs ==
  ({1, 2} \X Algorithms1 \X Modes \X {DefaultQuantum})
    \cup ({2} \X {"rr"} \X Modes \X (1..MaxQuantum))

\* ------------------------------------------------------------ helpers
LogEntry(t, kind, pid) == [tick |-> t, kind |-> kind, pid |-> pid]

IsRR == impl = 2 /\ algorithm = "rr"

RECURSIVE SumBurst(_, _)
SumBurst(procs, n) == IF n = 0 THEN 0 ELSE procs[n].burst + SumBurst(procs, n - 1)

LastArrival(procs) ==
  IF Len(procs) = 0 THEN 0
  ELSE CHOOSE a \in {procs[i].arrival : i \in 1..Len(procs)} :
         \A i \in 1..Len(procs) : procs[i].arrival <= a

\* The clock value by which a run on fresh records has ended.
WorkEnd(procs) == LastArrival(procs) + SumBurst(procs, Len(procs))

\* The model follows a run up to this clock value and no further.
Horizon == WorkEnd(processes) + ExtraTicks

\* SchedulerGUI.__init__: self.running = False, no worker thread.
NoGui == gui_running = FALSE /\ workers = <<>> /\ active = 0 /\ switches = 0

\* ProcessScheduler.__init__: the scheduler-level fields of a new scheduler.
NewScheduler ==
  /\ completed = <<>>
  /\ context_switches = 0
  /\ cpu_utilization = <<0, 1>>
  /\ throughput = <<0, 1>>
  /\ idle_time = 0
  /\ execution_log = <<>>
  /\ idle_ticks = {}

InitOn(batches) ==
  /\ \E c \in Configs :
       /\ impl = c[1]
       /\ algorithm = c[2]
       /\ mode = c[3]
       /\ quantum = c[4]
  /\ \E b \in batches : processes = SortByArrival(b)
  /\ NewScheduler
  /\ clock = 0 /\ ready = <<>> /\ process_index = 0
  /\ running = 0 /\ last_process = 0
  /\ pc = "start"
  /\ run_no = 1
  /\ origin = "new"
  /\ prev = <<>>
  /\ NoGui

Init == InitOn(Batches)

\* ProcessScheduler.__init__ again, for a later scheduler on the same list.
NewSchedulerAgain ==
  /\ completed' = <<>>
  /\ context_switches' = 0
  /\ cpu_utilization' = <<0, 1>>
  /\ throughput' = <<0, 1>>
  /\ idle_time' = 0
  /\ execution_log' = <<>>
  /\ idle_ticks' = {}

\* Mutant of SystemMetrics: the idle share is reported as the utilization.
SystemMetricsIdleShare(total_time, idle, ncompleted, util, thr) ==
  IF total_time > 0
  THEN <<<<idle * 100, total_time>>, <<ncompleted, total_time>>>>
  ELSE <<util, thr>>

\* calculate_system_metrics: the new <<cpu_utilization, throughput>>, each a
\* fraction <<numerator, denominator>>; both keep their value when total_time is 0.
SystemMetrics(total_time, idle, ncompleted, util, thr) ==
  IF total_time > 0
  THEN <<<<(total_time - idle) * 100, total_time>>, <<ncompleted, total_time>>>>
  ELSE <<util, thr>>

\* Entry of schedule(): the locals of the loop.
ScheduleEntry ==
  /\ pc = "start"
  /\ clock' = 0 /\ ready' = <<>> /\ process_index' = 0
  /\ running' = 0 /\ last_process' = 0
  /\ pc' = IF IsRR THEN "rr_loop" ELSE "loop"
  /\ UNCHANGED <<cfgVars, processes, schedVars, progVars>>

\* Mutant of AdmitPush: an arrival enters the round-robin queue at its front.
AdmitPushFront(rr, alg, rdy, proc, i) ==
  IF rr THEN <<i>> \o rdy ELSE HeapPush(rdy, HeapEntry(alg, proc, i))

\* What the admission loop pushes for a process that has arrived.
AdmitPush(rr, alg, rdy, proc, i) ==
  IF rr THEN Append(rdy, i) ELSE HeapPush(rdy, HeapEntry(alg, proc, i))

\* Mutant of HasArrived: a process is admitted only after its arrival tick.
HasArrivedStrictlyBefore(p, clk) == p.arrival < clk

\* self.processes[process_index].arrival <= clock
HasArrived(p, clk) == p.arrival <= clk

\* Mutant of ArrivalLogEntry: the arrival is logged at the arrival time.
ArrivalLogEntryAtArrival(proc, clk) == LogEntry(proc.arrival, "arrived", proc.pid)

\* The log line of an admission: f"[Time {clock}] ... {proc.pid} arrived ...".
ArrivalLogEntry(proc, clk) == LogEntry(clk, "arrived", proc.pid)

\* The inner while loop: admits, in list order, every process from index idx on
\* whose arrival is <= clk, and stops at the first one that has not arrived.
RECURSIVE AdmitLoop(_, _, _, _)
AdmitLoop(rr, alg, clk, st) ==
  IF st.idx < Len(st.procs) /\ HasArrived(st.procs[st.idx + 1], clk)
  THEN LET i == st.idx + 1
           proc == [st.procs[i] EXCEPT !.state = "READY"]
       IN AdmitLoop(rr, alg, clk,
            [procs |-> [st.procs EXCEPT ![i] = proc],
             rdy |-> AdmitPush(rr, alg, st.rdy, proc, i),
             log |-> Append(st.log, ArrivalLogEntry(proc, clk)),
             idx |-> i])
  ELSE st

Admitted ==
  AdmitLoop(IsRR, algorithm, clock,
    [procs |-> processes, rdy |-> ready, log |-> execution_log, idx |-> process_index])

\* The loop condition of the heap-based loop.
LoopCond == process_index < Len(processes) \/ ready # <<>> \/ running # 0

\* Top of an iteration: the loop condition holds; admission.
Admit ==
  /\ pc = "loop"
  /\ LoopCond
  /\ clock < Horizon
  /\ processes' = Admitted.procs
  /\ ready' = Admitted.rdy
  /\ execution_log' = Admitted.log
  /\ process_index' = Admitted.idx
  /\ pc' = "preempt"
  /\ UNCHANGED <<cfgVars, completed, context_switches, cpu_utilization, throughput,
                 idle_time, idle_ticks, clock, running, last_process, progVars>>

\* Mutant of ShouldPreempt: the priority comparison is the other way round
\* (a lower number taken as more urgent).
ShouldPreemptLowerNumber(alg, top, run) ==
  CASE alg = "priority" -> (0 - top[1]) < run.priority
    [] alg = "sjf" -> top[1] < run.remaining
    [] OTHER -> FALSE

\* Mutant of ShouldPreempt: a ready process of equal priority preempts too.
ShouldPreemptOnEqualPriority(alg, top, run) ==
  CASE alg = "priority" -> (0 - top[1]) >= run.priority
    [] alg = "sjf" -> top[1] < run.remaining
    [] OTHER -> FALSE

\* Mutant of ShouldPreempt: a ready process with equal remaining time preempts too.
ShouldPreemptOnEqualRemaining(alg, top, run) ==
  CASE alg = "priority" -> (0 - top[1]) > run.priority
    [] alg = "sjf" -> top[1] <= run.remaining
    [] OTHER -> FALSE

\* Mutant of ShouldPreempt: no ready process ever preempts.
ShouldPreemptNever(alg, top, run) == FALSE

\* Mutant of ShouldPreempt: under sjf the ready key is compared with the burst
\* of the running process instead of what remains of it.
ShouldPreemptAgainstBurst(alg, top, run) ==
  CASE alg = "priority" -> (0 - top[1]) > run.priority
    [] alg = "sjf" -> top[1] < run.burst
    [] OTHER -> FALSE

\* should_preempt, given the algorithm, the top of the heap and the running process.
ShouldPreempt(alg, top, run) ==
  CASE alg = "priority" -> (0 - top[1]) > run.priority
    [] alg = "sjf" -> top[1] < run.remaining
    [] OTHER -> FALSE

\* The tuple pushed for a preempted process (pushed only when should_preempt,
\* which is set only under priority and sjf).
PreemptEntry(alg, run, i) ==
  <<IF alg = "priority" THEN 0 - run.priority ELSE run.remaining,
    run.arrival, run.pid, i>>

\* Mutant of ModeAllowsPreemption: the mode is not looked at.
ModeAllowsPreemptionAlways(md) == TRUE

\* self.mode == "preemptive"
ModeAllowsPreemption(md) == md = "preemptive"

\* The preemption check of an iteration.
PreemptCheck ==
  /\ pc = "preempt"
  /\ IF /\ running # 0
        /\ ModeAllowsPreemption(mode)
        /\ ready # <<>>
        /\ ShouldPreempt(algorithm, HeapTop(ready), processes[running])
     THEN /\ processes' =
               [processes EXCEPT
                  ![running] = [@ EXCEPT !.state = "READY",
                                         !.context_switches =
                                            IF impl = 1 THEN @ + 1 ELSE @]]
          /\ context_switches' = context_switches + 1
          /\ ready' = HeapPush(ready, PreemptEntry(algorithm, processes[running], running))
          /\ execution_log' =
               IF impl = 1
               THEN Append(execution_log,
                           LogEntry(clock, "preempted", processes[running].pid))
               ELSE execution_log
          /\ running' = 0
     ELSE UNCHANGED <<processes, context_switches, ready, execution_log, running>>
  /\ pc' = "dispatch"
  /\ UNCHANGED <<cfgVars, completed, cpu_utilization, throughput, idle_time,
                 idle_ticks, clock, process_index, last_process, progVars>>

\* Mutant of CountsSwitch: every dispatch counts, the first one too.
CountsSwitchEveryDispatch(procs, last, next) == TRUE

\* Mutant of StartAt: every dispatch sets start.
StartAtEveryDispatch(p, clk) == clk

\* if running.start is None: running.start = clock
StartAt(p, clk) == IF p.start = NoneVal THEN clk ELSE p.start

\* The context-switch test of a dispatch: last_process and its pid differs.
CountsSwitch(procs, last, next) == last # 0 /\ procs[last].pid # procs[next].pid

\* Dispatch: when the CPU is free and the heap is not empty, pop the best process.
Dispatch ==
  /\ pc = "dispatch"
  /\ IF running = 0 /\ ready # <<>>
     THEN LET r == EntryProc(HeapTop(ready))
              p == processes[r]
          IN /\ ready' = HeapPopRest(ready)
             /\ running' = r
             /\ processes' =
                  [processes EXCEPT
                     ![r] = [@ EXCEPT
                               !.state = "RUNNING",
                               !.start = StartAt(p, clock),
                               !.response_time =
                                  IF impl = 1 /\ p.start = NoneVal
                                  THEN clock - p.arrival ELSE @]]
             /\ context_switches' =
                  IF CountsSwitch(processes, last_process, r)
                  THEN context_switches + 1 ELSE context_switches
             /\ execution_log' =
                  IF impl = 1
                  THEN Append(execution_log, LogEntry(clock, "started", p.pid))
                  ELSE execution_log
             /\ last_process' = IF impl = 2 THEN r ELSE last_process
     ELSE UNCHANGED <<ready, running, processes, context_switches, execution_log,
                      last_process>>
  /\ pc' = "execute"
  /\ UNCHANGED <<cfgVars, completed, cpu_utilization, throughput, idle_time,
                 idle_ticks, clock, process_index, progVars>>

\* Mutant of RunOneTick: the tick is recorded but remaining is not decremented.
RunOneTickNoDecrement(p, clk) ==
  [p EXCEPT !.execution_history = Append(@, clk)]

\* Mutant of RunOneTick: remaining is decremented but the tick is not recorded.
RunOneTickNoHistory(p, clk) == [p EXCEPT !.remaining = @ - 1]

\* running.remaining -= 1; running.execution_history.append(clock)
RunOneTick(p, clk) ==
  [p EXCEPT !.remaining = @ - 1, !.execution_history = Append(@, clk)]

\* Execution of one time unit (or an idle tick), then clock += 1.
Execute ==
  /\ pc = "execute"
  /\ IF running # 0
     THEN LET p1 == RunOneTick(processes[running], clock)
          IN /\ IF p1.remaining = 0
                THEN /\ processes' =
                          [processes EXCEPT
                             ![running] =
                                CalculateMetrics(impl,
                                  [p1 EXCEPT !.finish = clock + 1,
                                             !.state = "TERMINATED"])]
                     /\ completed' = Append(completed, running)
                     /\ execution_log' =
                          IF impl = 1
                          THEN Append(execution_log,
                                      LogEntry(clock + 1, "completed", p1.pid))
                          ELSE execution_log
                     /\ running' = 0
                ELSE /\ processes' = [processes EXCEPT ![running] = p1]
                     /\ UNCHANGED <<completed, execution_log, running>>
             /\ last_process' = IF impl = 1 THEN running ELSE last_process
             /\ UNCHANGED <<idle_time, idle_ticks>>
     ELSE /\ idle_time' = idle_time + 1
          /\ idle_ticks' = idle_ticks \cup {clock}
          /\ execution_log' =
               IF impl = 1
               THEN Append(execution_log, LogEntry(clock, "idle", 0))
               ELSE execution_log
          /\ UNCHANGED <<processes, completed, running, last_process>>
  /\ clock' = clock + 1
  /\ pc' = "loop"
  /\ UNCHANGED <<cfgVars, context_switches, cpu_utilization, throughput, ready,
                 process_index, progVars>>

\* The loop condition fails: calculate_system_metrics(clock), return.
ScheduleReturn ==
  /\ pc = "loop"
  /\ ~LoopCond
  /\ LET m == SystemMetrics(clock, idle_time, Len(completed), cpu_utilization, throughput)
     IN /\ cpu_utilization' = m[1]
        /\ throughput' = m[2]
  /\ pc' = "done"
  /\ UNCHANGED <<cfgVars, processes, completed, context_switches, idle_time,
                 execution_log, idle_ticks, localVars, progVars>>

\* ------------------------------------------------------------ round robin
\* The loop condition of _round_robin.
RRLoopCond == process_index < Len(processes) \/ ready # <<>>

RRAdmit ==
  /\ pc = "rr_loop"
  /\ RRLoopCond
  /\ clock < Horizon
  /\ processes' = Admitted.procs
  /\ ready' = Admitted.rdy
  /\ execution_log' = Admitted.log
  /\ process_index' = Admitted.idx
  /\ pc' = "rr_run"
  /\ UNCHANGED <<cfgVars, completed, context_switches, cpu_utilization, throughput,
                 idle_time, idle_ticks, clock, running, last_process, progVars>>

\* Mutant of RRIdle: an idle tick counts as a context switch.
RRIdleCountsSwitch ==
  /\ pc = "rr_run"
  /\ ready = <<>>
  /\ execution_log' = Append(execution_log, LogEntry(clock, "idle", 0))
  /\ idle_time' = idle_time + 1
  /\ idle_ticks' = idle_ticks \cup {clock}
  /\ context_switches' = context_switches + 1
  /\ clock' = clock + 1
  /\ pc' = "rr_loop"
  /\ UNCHANGED <<cfgVars, processes, completed, cpu_utilization,
                 throughput, ready, process_index, running, last_process, progVars>>

\* The queue is empty after admission: an idle tick, then continue.
RRIdle ==
  /\ pc = "rr_run"
  /\ ready = <<>>
  /\ execution_log' = Append(execution_log, LogEntry(clock, "idle", 0))
  /\ idle_time' = idle_time + 1
  /\ idle_ticks' = idle_ticks \cup {clock}
  /\ clock' = clock + 1
  /\ pc' = "rr_loop"
  /\ UNCHANGED <<cfgVars, processes, completed, context_switches, cpu_utilization,
                 throughput, ready, process_index, running, last_process, progVars>>

\* Mutant of SliceLength: every slice lasts the whole quantum.
SliceLengthWholeQuantum(q, remaining) == q

\* exec_time = min(quantum, proc.remaining)
SliceLength(q, remaining) == IF q <= remaining THEN q ELSE remaining

\* Mutant of SliceTicks: the loop appends the clock without advancing it.
SliceTicksStuck(clk, exec_time) == [k \in 1..exec_time |-> clk]

\* The ticks the for loop of a slice appends, starting at clock value clk.
SliceTicks(clk, exec_time) == [k \in 1..exec_time |-> clk + k - 1]

\* One dispatch: the head of the queue runs its whole slice.
RRSlice ==
  /\ pc = "rr_run"
  /\ ready # <<>>
  /\ LET i == Head(ready)
         p == processes[i]
         exec_time == SliceLength(quantum, p.remaining)
         ticks == SliceTicks(clock, exec_time)
         clock1 == clock + Len(ticks)
         p1 == [p EXCEPT !.start = StartAt(p, clock),
                         !.response_time =
                            IF p.start = NoneVal THEN clock - p.arrival ELSE @,
                         !.execution_history = @ \o ticks,
                         !.remaining = @ - exec_time]
         log1 == Append(execution_log, LogEntry(clock, "executing", p.pid))
     IN /\ clock' = clock1
        /\ IF p1.remaining > 0
           THEN /\ ready' = Append(Tail(ready), i)
                /\ processes' = [processes EXCEPT ![i] = p1]
                /\ execution_log' = Append(log1, LogEntry(clock1, "preempted", p.pid))
                /\ UNCHANGED completed
           ELSE /\ ready' = Tail(ready)
                /\ processes' =
                     [processes EXCEPT
                        ![i] = [CalculateMetrics(impl, [p1 EXCEPT !.finish = clock1])
                                  EXCEPT !.state = "TERMINATED"]]
                /\ completed' = Append(completed, i)
                /\ execution_log' = Append(log1, LogEntry(clock1, "finished", p.pid))
  /\ context_switches' = context_switches + 1
  /\ pc' = "rr_loop"
  /\ UNCHANGED <<cfgVars, cpu_utilization, throughput, idle_time, idle_ticks,
                 process_index, running, last_process, progVars>>

RRReturn ==
  /\ pc = "rr_loop"
  /\ ~RRLoopCond
  /\ LET m == SystemMetrics(clock, idle_time, Len(completed), cpu_utilization, throughput)
     IN /\ cpu_utilization' = m[1]
        /\ throughput' = m[2]
  /\ pc' = "done"
  /\ UNCHANGED <<cfgVars, processes, completed, context_switches, idle_time,
                 execution_log, idle_ticks, localVars, progVars>>

\* ------------------------------------------------------------ one run
Next ==
  \/ ScheduleEntry
  \/ Admit
  \/ PreemptCheck
  \/ Dispatch
  \/ Execute
  \/ ScheduleReturn
  \/ RRAdmit
  \/ RRIdle
  \/ RRSlice
  \/ RRReturn

\* One call of schedule() on a batch of fresh records.
Spec == Init /\ [][Next]_vars

\* ------------------------------------------------------------ the callers
\* Calls of schedule() one after the other on one process list: the comparison
\* loop (fresh copies for each run) and the Run button of the GUI (a new
\* scheduler on self.processes).
MaxRuns == 2
MaxProcsProgram == 2

\* The batches of run_predefined_examples.
Example1 ==
  <<Process(1, 0, 4, 2), Process(2, 1, 3, 3), Process(3, 2, 2, 1),
    Process(4, 3, 5, 4), Process(5, 4, 2, 5)>>
Example2 ==
  <<Process(1, 0, 6, 2), Process(2, 1, 8, 3), Process(3, 2, 7, 1), Process(4, 3, 3, 4)>>
Example3 ==
  <<Process(1, 0, 5, 3), Process(2, 1, 3, 2), Process(3, 2, 8, 1), Process(4, 3, 6, 4)>>

ProgramBatches ==
  UNION {BatchesOfLen(n) : n \in 0..MaxProcsProgram}
    \cup {ScenarioPriority, ScenarioUnsorted, ScenarioRR, Example1, Example2, Example3}

InitProgram == InitOn(ProgramBatches)

\* What a finished run hands to its caller.
Result(p) ==
  [pid |-> p.pid, start |-> p.start, finish |-> p.finish, waiting |-> p.waiting,
   turnaround |-> p.turnaround, response_time |-> p.response_time]

Outcome ==
  [cfg |-> <<impl, algorithm, mode, quantum>>,
   returned |-> pc = "done",
   completed |-> [k \in 1..Len(completed) |-> Result(processes[completed[k]])],
   idle_time |-> idle_time,
   context_switches |-> context_switches,
   execution_log |-> execution_log]

\* Mutant of FreshCopy: the caller's record itself is handed on.
FreshCopyAliased(p) == p

\* Process(p.pid, p.arrival, p.burst, p.priority, p.process_type) for p in original
FreshCopy(p) == Process(p.pid, p.arrival, p.burst, p.priority)

\* The algorithms compare_with_other_algorithms runs.
CompareAlgorithms(im) == IF im = 1 THEN Algorithms1 ELSE Algorithms1 \cup {"rr"}

\* One iteration of the loop of compare_with_other_algorithms: fresh copies of
\* the caller's processes, a new scheduler with the same mode (and quantum).
CompareRun ==
  /\ pc = "done"
  /\ run_no < MaxRuns
  /\ \E algo \in CompareAlgorithms(impl) : algorithm' = algo
  /\ processes' = SortByArrival([i \in 1..Len(processes) |-> FreshCopy(processes[i])])
  /\ NewSchedulerAgain
  /\ pc' = "start"
  /\ run_no' = run_no + 1
  /\ origin' = "copy"
  /\ prev' = [outcome |-> Outcome, origin |-> origin]
  /\ UNCHANGED <<impl, mode, quantum, localVars, guiVars>>

\* SchedulerGUI.run_scheduler_animated after an earlier run has ended: a new
\* ProcessScheduler(self.processes, mode, algorithm) of scheduler_code.py.
RunPress ==
  /\ pc = "done"
  /\ impl = 1
  /\ run_no < MaxRuns
  /\ processes # <<>>
  /\ \E m \in Modes : mode' = m
  /\ \E algo \in Algorithms1 : algorithm' = algo
  /\ processes' = SortByArrival(processes)
  /\ NewSchedulerAgain
  /\ pc' = "start"
  /\ run_no' = run_no + 1
  /\ origin' = "same"
  /\ prev' = [outcome |-> Outcome, origin |-> origin]
  /\ UNCHANGED <<impl, quantum, localVars, guiVars>>

NextProgram == Next \/ CompareRun \/ RunPress

\* A caller that runs schedule() MaxRuns times.
SpecProgram == InitProgram /\ [][NextProgram]_vars

\* One call of schedule() on fresh records, on the callers' batches; the loop
\* of schedule() keeps stepping: a run that can take a step takes it.
FairSpec == InitProgram /\ [][Next]_vars /\ WF_vars(Next)

\* ------------------------------------------------------ longer bursts
\* The heap loop alone (priority, sjf, fcfs in both files) on batches whose
\* bursts are long enough for a process to be overtaken in the middle of its
\* burst under every algorithm. The ids follow the list order here.
MaxBurstLong == 3

LongBatches ==
  UNION {{[i \in 1..n |-> Process(i, a[i], b[i], q[i])] :
            a \in ArrivalSeqs(n),
            b \in [1..n -> 1..MaxBurstLong], q \in [1..n -> 1..MaxPriority]} :
         n \in 1..MaxProcs}

InitHeap ==
  /\ InitOn(LongBatches)
  /\ ~IsRR

\* The steps of the heap-based loop.
NextHeap ==
  \/ ScheduleEntry
  \/ Admit
  \/ PreemptCheck
  \/ Dispatch
  \/ Execute
  \/ ScheduleReturn

\* One call of the heap-based schedule() on fresh records with longer bursts.
SpecHeap == InitHeap /\ [][NextHeap]_vars

\* ------------------------------------------------------- unchecked input
\* Neither Process.__init__ nor ProcessScheduler.__init__ looks at the values
\* it is given, so a caller can construct a scheduler on any of these. Id 0
\* stands for the empty id "", which Python orders before every "P<n>".
AnyIds == {0, 1}
AnyArrivals == {0 - 1, 0, 1}
AnyBursts == {0, 1, 2}
AnyPriorities == {0, 1}
AnyQuanta == {0 - 1, 0, 1}
AnyAlgorithms == {"priority", "SJF", "fcfs", "rr", "lottery"}
AnyModes == {"preemptive", "non-preemptive", "batch"}

\* str.lower() on the algorithm names above.
Lower(s) ==
  CASE s = "SJF" -> "sjf"
    [] OTHER -> s

\* Batches of up to two records with distinct ids and any field values, in any
\* order.
AnyBatches ==
  {<<>>}
    \cup {<<Process(f, a, b, q)>> :
            f \in AnyIds, a \in AnyArrivals, b \in AnyBursts, q \in AnyPriorities}
    \cup {<<Process(f[1], a[1], b[1], q[1]), Process(f[2], a[2], b[2], q[2])>> :
            f \in {g \in [1..2 -> AnyIds] : g[1] # g[2]},
            a \in [1..2 -> AnyArrivals], b \in [1..2 -> AnyBursts],
            q \in [1..2 -> AnyPriorities]}

\* (impl, algorithm argument, mode, quantum).
AnyConfigs ==
  ({1} \X AnyAlgorithms \X AnyModes \X {DefaultQuantum})
    \cup ({2} \X (AnyAlgorithms \ {"rr"}) \X AnyModes \X {DefaultQuantum})
    \cup ({2} \X {"rr"} \X AnyModes \X AnyQuanta)

\* The state after ProcessScheduler(processes, mode, algorithm[, quantum]) for
\* arguments of any value.
InitUnchecked ==
  /\ \E c \in AnyConfigs :
       /\ impl = c[1]
       /\ algorithm = IF c[1] = 2 THEN Lower(c[2]) ELSE c[2]
       /\ mode = c[3]
       /\ quantum = c[4]
  /\ \E b \in AnyBatches : processes = SortByArrival(b)
  /\ NewScheduler
  /\ clock = 0 /\ ready = <<>> /\ process_index = 0
  /\ running = 0 /\ last_process = 0
  /\ pc = "start"
  /\ run_no = 1
  /\ origin = "new"
  /\ prev = <<>>
  /\ NoGui

\* A slice that does not advance the clock can repeat for ever; the model
\* follows the round-robin loop while the log is shorter than this (longer
\* than the log of any run on these batches that returns).
MaxLogLen == 12

RRAdmitWithinLog == Len(execution_log) < MaxLogLen /\ RRAdmit

NextUnchecked ==
  \/ ScheduleEntry
  \/ Admit
  \/ PreemptCheck
  \/ Dispatch
  \/ Execute
  \/ ScheduleReturn
  \/ RRAdmitWithinLog
  \/ RRIdle
  \/ RRSlice
  \/ RRReturn

\* One call of schedule() on a scheduler constructed from arguments of any value.
SpecUnchecked == InitUnchecked /\ [][NextUnchecked]_vars

\* ------------------------------------------------ the two heap loops
\* The execution histories of the completed processes, in completion order.
CompletedHistories ==
  [k \in 1..Len(completed) |-> processes[completed[k]].execution_history]

\* After schedule() of scheduler_code.py has returned: a scheduler of
\* scheduler_code_rr.py, with the same mode and algorithm, on fresh copies of
\* the same batch.
TwinRun ==
  /\ pc = "done"
  /\ impl = 1
  /\ run_no = 1
  /\ impl' = 2
  /\ processes' = SortByArrival([i \in 1..Len(processes) |-> FreshCopy(processes[i])])
  /\ NewSchedulerAgain
  /\ pc' = "start"
  /\ run_no' = run_no + 1
  /\ origin' = "copy"
  /\ prev' = [outcome |-> Outcome, origin |-> origin, histories |-> CompletedHistories]
  /\ UNCHANGED <<mode, algorithm, quantum, localVars, guiVars>>

InitTwin ==
  /\ InitOn(LongBatches)
  /\ impl = 1

NextTwin ==
  \/ ScheduleEntry
  \/ Admit
  \/ PreemptCheck
  \/ Dispatch
  \/ Execute
  \/ ScheduleReturn
  \/ TwinRun

\* The heap loop of scheduler_code.py and then that of scheduler_code_rr.py
\* on the same batch, mode and algorithm.
SpecTwin == InitTwin /\ [][NextTwin]_vars

\* ----------------------------------------------------------------- the GUI
\* SchedulerGUI of gui_scheduler_animated.py. The Run button calls
\* run_scheduler_thread on the main thread, which starts a worker thread for
\* run_scheduler_animated unless self.running is set; the flag is set by the
\* worker. The main thread and the workers interleave. The scheduler
\* variables hold the ProcessScheduler of the worker that is stepping (active);
\* the scheduler of a worker that is not stepping is kept in workers. Every
\* scheduler is built on the records of self.processes and sorts them alike,
\* so processes stands for the list of each of them.
MaxWorkers == 2
\* The interleavings followed: those with at most this many switches between
\* workers inside schedule().
MaxSwitches == 1

\* The lists the user can have entered with add_process.
GuiBatches == UNION {BatchesOfLen(n) : n \in 0..MaxProcsProgram}

\* The fields and locals of the ProcessScheduler that is stepping.
SchedulerState ==
  [mode |-> mode, algorithm |-> algorithm, completed |-> completed,
   context_switches |-> context_switches, cpu_utilization |-> cpu_utilization,
   throughput |-> throughput, idle_time |-> idle_time,
   execution_log |-> execution_log, idle_ticks |-> idle_ticks,
   clock |-> clock, ready |-> ready, process_index |-> process_index,
   running |-> running, last_process |-> last_process, pc |-> pc]

\* The scheduler s is the one that steps from now on.
Resume(s) ==
  /\ mode' = s.mode /\ algorithm' = s.algorithm /\ completed' = s.completed
  /\ context_switches' = s.context_switches
  /\ cpu_utilization' = s.cpu_utilization /\ throughput' = s.throughput
  /\ idle_time' = s.idle_time /\ execution_log' = s.execution_log
  /\ idle_ticks' = s.idle_ticks /\ clock' = s.clock /\ ready' = s.ready
  /\ process_index' = s.process_index /\ running' = s.running
  /\ last_process' = s.last_process /\ pc' = s.pc

Workers == 1..Len(workers)

\* The worker is between its call of scheduler.schedule() and the end of
\* run_scheduler_animated.
InSchedule(w) == workers[w].at = "scheduling"

\* workers once the worker that was stepping has been descheduled.
Descheduled ==
  IF active # 0 /\ InSchedule(active)
  THEN [workers EXCEPT ![active].sched = SchedulerState]
  ELSE workers

\* The window before the first press of Run: no worker thread, no scheduler;
\* mode and algorithm hold the entries selected in the two boxes, which every
\* scheduler of the run reads (the selection is not changed between presses).
InitGui ==
  /\ impl = 1
  /\ mode \in Modes
  /\ algorithm \in Algorithms1
  /\ quantum = DefaultQuantum
  /\ \E b \in GuiBatches : processes = SortByArrival(b)
  /\ NewScheduler
  /\ clock = 0 /\ ready = <<>> /\ process_index = 0
  /\ running = 0 /\ last_process = 0
  /\ pc = "none"
  /\ run_no = 0
  /\ origin = "new"
  /\ prev = <<>>
  /\ NoGui

\* run_scheduler_thread (main thread, the Run button): returns when
\* self.running is set, else starts a thread on run_scheduler_animated.
RunSchedulerThread ==
  /\ ~gui_running
  /\ Len(workers) < MaxWorkers
  /\ workers' = Append(workers, [at |-> "started", sched |-> <<>>])
  /\ UNCHANGED <<cfgVars, processes, schedVars, localVars, pc, run_no, origin, prev,
                 gui_running, active, switches>>

\* run_scheduler_animated, its first statements: an error box and return
\* when self.processes is empty, else self.running = True.
WorkerBegin(w) ==
  /\ workers[w].at = "started"
  /\ IF processes = <<>>
     THEN /\ workers' = [workers EXCEPT ![w].at = "finished"]
          /\ UNCHANGED gui_running
     ELSE /\ workers' = [workers EXCEPT ![w].at = "marked"]
          /\ gui_running' = TRUE
  /\ UNCHANGED <<cfgVars, processes, schedVars, localVars, pc, run_no, origin, prev,
                 active, switches>>

\* scheduler = ProcessScheduler(self.processes, mode=self.mode.get(),
\* algorithm=self.algorithm.get()) and the call of scheduler.schedule().
WorkerConstruct(w) ==
  /\ workers[w].at = "marked"
  /\ processes' = SortByArrival(processes)
  /\ NewSchedulerAgain
  /\ pc' = "start"
  /\ workers' = [Descheduled EXCEPT ![w].at = "scheduling"]
  /\ active' = w
  /\ run_no' = run_no + 1
  /\ origin' = IF run_no = 0 THEN "new" ELSE "same"
  /\ UNCHANGED <<cfgVars, localVars, prev, gui_running, switches>>

\* The interpreter hands the processor to another worker that is inside
\* schedule().
ThreadSwitch(w) ==
  /\ switches < MaxSwitches
  /\ switches' = switches + 1
  /\ w # active
  /\ InSchedule(w)
  /\ Resume(workers[w].sched)
  /\ workers' = [Descheduled EXCEPT ![w].sched = <<>>]
  /\ active' = w
  /\ UNCHANGED <<impl, quantum, processes, run_no, origin, prev, gui_running>>

\* run_scheduler_animated after schedule() has returned: the table, the
\* animation, the metrics line (a division by len(scheduler.completed), which
\* ends the thread when nothing was completed) and self.running = False.
WorkerFinish(w) ==
  /\ w = active
  /\ InSchedule(w)
  /\ pc = "done"
  /\ IF completed = <<>>
     THEN /\ workers' = [workers EXCEPT ![w].at = "crashed"]
          /\ UNCHANGED gui_running
     ELSE /\ workers' = [workers EXCEPT ![w].at = "finished"]
          /\ gui_running' = FALSE
  /\ UNCHANGED <<cfgVars, processes, schedVars, localVars, pc, run_no, origin, prev,
                 active, switches>>

NextGui ==
  \/ RunSchedulerThread
  \/ \E w \in Workers : WorkerBegin(w)
  \/ \E w \in Workers : WorkerConstruct(w)
  \/ \E w \in Workers : ThreadSwitch(w)
  \/ \E w \in Workers : WorkerFinish(w)
  \/ ScheduleEntry
  \/ Admit
  \/ PreemptCheck
  \/ Dispatch
  \/ Execute
  \/ ScheduleReturn

\* The window with its Run button and worker threads.
SpecGui == InitGui /\ [][NextGui]_vars

\* =================================================================== claims
Done == pc = "done"

Procs == 1..Len(processes)

\* The indices of the processes in the completed list.
CompletedSet == {completed[k] : k \in 1..Len(completed)}

\* Process i executed at tick t (t is in its execution history).
RanAt(i, t) ==
  \E k \in 1..Len(processes[i].execution_history) :
    processes[i].execution_history[k] = t

\* Number of entries of process i's execution history that are tick t.
TimesRanAt(i, t) ==
  Cardinality({k \in 1..Len(processes[i].execution_history) :
                 processes[i].execution_history[k] = t})

RECURSIVE HistoryTotal(_)
HistoryTotal(n) ==
  IF n = 0 THEN 0 ELSE Len(processes[n].execution_history) + HistoryTotal(n - 1)

\* Some process was preempted or re-queued: its history is not one block.
Interrupted(p) ==
  \E k \in 1..(Len(p.execution_history) - 1) :
    p.execution_history[k + 1] # p.execution_history[k] + 1

\* C1: every process in the completed list has turnaround == waiting + burst,
\* under every algorithm and mode and in both scheduler files.
C1_TurnaroundIsWaitingPlusBurst ==
  \A i \in CompletedSet :
    processes[i].turnaround = processes[i].waiting + processes[i].burst

\* C2: after schedule() has returned with final clock T, every tick 0..T-1 is
\* either in the execution history of exactly one process (once) or an idle
\* tick, never both; so the history lengths plus idle_time add up to T.
C2_EveryTickAccountedOnce ==
  Done =>
    /\ \A t \in 0..(clock - 1) :
         \/ /\ t \in idle_ticks
            /\ \A i \in Procs : TimesRanAt(i, t) = 0
         \/ /\ t \notin idle_ticks
            /\ \E i \in Procs :
                 /\ TimesRanAt(i, t) = 1
                 /\ \A j \in Procs \ {i} : TimesRanAt(j, t) = 0
    /\ idle_time = Cardinality(idle_ticks)
    /\ idle_ticks \subseteq 0..(clock - 1)
    /\ \A i \in Procs : \A t \in 0..Horizon : RanAt(i, t) => t < clock
    /\ HistoryTotal(Len(processes)) + idle_time = clock

\* A finished round-robin run with an idle tick in the middle and a process
\* that ran in more than one slice.
C2_Witness ==
  /\ Done
  /\ IsRR
  /\ \E t \in idle_ticks : \E i \in Procs : \E u \in 0..(t - 1) : RanAt(i, u)
  /\ \E i \in Procs : Interrupted(processes[i])

\* Every input process is TERMINATED with nothing remaining and is in the
\* completed list exactly once.
AllCompleted ==
  /\ \A i \in Procs :
       /\ processes[i].state = "TERMINATED"
       /\ processes[i].remaining = 0
       /\ Cardinality({k \in 1..Len(completed) : completed[k] = i}) = 1
  /\ Len(completed) = Len(processes)

\* C3: on a batch of fresh valid records with unique ids, under every algorithm
\* and mode, schedule() eventually returns, and then every input process is
\* TERMINATED with remaining == 0 and is in the completed list exactly once.
C3_TerminatesWithAllCompleted == <>(Done /\ AllCompleted)

\* A run of a full batch that returned although a process had been preempted.
C3_Witness ==
  /\ Done
  /\ AllCompleted
  /\ Len(processes) > MaxProcsProgram
  /\ mode = "preemptive"
  /\ \E i \in Procs : Interrupted(processes[i])

\* The records of the run are those of batch b (as the constructor sorts them).
InputIs(b) ==
  /\ Len(processes) = Len(b)
  /\ \A i \in 1..Len(b) :
       LET q == SortByArrival(b)[i]
       IN /\ processes[i].pid = q.pid
          /\ processes[i].arrival = q.arrival
          /\ processes[i].burst = q.burst
          /\ processes[i].priority = q.priority

\* The processes waiting in the ready heap.
HeapProcs == {EntryProc(ready[k]) : k \in 1..Len(ready)}

\* C4: preemptive Priority on P1(0, 4, 2), P2(1, 3, 3): P1 executes tick 0 only
\* and is preempted at tick 1 when P2 arrives; P2 executes ticks 1, 2, 3 and
\* finishes at 4; P1 resumes on ticks 4, 5, 6 and finishes at 7; and
\* context_switches >= 1.
C4_PriorityScenario ==
  (InputIs(ScenarioPriority) /\ algorithm = "priority" /\ mode = "preemptive") =>
    /\ (pc = "dispatch" /\ clock = 1) =>
         /\ running = 0
         /\ processes[1].state = "READY"
         /\ processes[1].execution_history = <<0>>
         /\ HeapProcs = {1, 2}
    /\ Done =>
         /\ processes[1].execution_history = <<0, 4, 5, 6>>
         /\ processes[1].finish = 7
         /\ processes[2].execution_history = <<1, 2, 3>>
         /\ processes[2].finish = 4
         /\ completed = <<2, 1>>
         /\ context_switches >= 1

\* The scenario has run to its end.
C4_Witness ==
  /\ InputIs(ScenarioPriority)
  /\ algorithm = "priority"
  /\ mode = "preemptive"
  /\ Done
  /\ processes[1].finish = 7

\* C5: round-robin with quantum 2 on P1(0, 5), P2(1, 3): P1 executes ticks 0
\* and 1, then P2 executes ticks 2 and 3, and P1 is dispatched again only at
\* tick 4.
C5_RoundRobinScenario ==
  (InputIs(ScenarioRR) /\ IsRR /\ quantum = 2 /\ Done) =>
    /\ SubSeq(processes[1].execution_history, 1, 3) = <<0, 1, 4>>
    /\ SubSeq(processes[2].execution_history, 1, 2) = <<2, 3>>

\* The ordering key the claim speaks of: priority under Priority, remaining
\* time under SJF.
SameRank(i, j) ==
  /\ processes[i].arrival = processes[j].arrival
  /\ IF algorithm = "priority"
     THEN processes[i].priority = processes[j].priority
     ELSE processes[i].remaining = processes[j].remaining

\* C6: under Priority (resp. SJF), when a process is dispatched while another
\* process with the same arrival and the same priority (resp. remaining time)
\* waits in the ready structure, the dispatched one has the smaller id,
\* whatever the order of the two in the input.
C6_TieBreakById ==
  [][(pc = "dispatch" /\ algorithm \in {"priority", "sjf"} /\ running = 0 /\ running' # 0) =>
       \A j \in HeapProcs \ {running'} :
         SameRank(running', j) => processes[running'].pid < processes[j].pid]_vars

\* A process has just been dispatched ahead of an equal-ranked process that
\* stands before it in the input list and has the larger id.
C6_Witness ==
  /\ pc = "execute"
  /\ algorithm \in {"priority", "sjf"}
  /\ running # 0
  /\ processes[running].execution_history = <<>>
  /\ \E j \in HeapProcs :
       /\ SameRank(running, j)
       /\ j < running
       /\ processes[j].pid > processes[running].pid

\* (arrival, id) of process i is before that of process j.
ArrivalIdBefore(i, j) ==
  \/ processes[i].arrival < processes[j].arrival
  \/ /\ processes[i].arrival = processes[j].arrival
     /\ processes[i].pid < processes[j].pid

\* C7: under FCFS, in either mode, processes are completed in ascending order
\* of arrival time, equal arrivals in ascending id order.
C7_FcfsCompletionOrder ==
  algorithm = "fcfs" =>
    \A k, l \in 1..Len(completed) :
      k < l => ArrivalIdBefore(completed[k], completed[l])

\* A finished FCFS run in preemptive mode of a full batch in which two
\* processes with the same arrival are listed in descending id order and a
\* process arrived while another one was executing.
C7_Witness ==
  /\ algorithm = "fcfs"
  /\ mode = "preemptive"
  /\ Done
  /\ Len(completed) = MaxProcs
  /\ \E i, j \in Procs :
       /\ i < j
       /\ processes[i].arrival = processes[j].arrival
       /\ processes[i].pid > processes[j].pid
  /\ \E i, j \in Procs :
       /\ processes[i].start < processes[j].arrival
       /\ processes[j].arrival < processes[i].finish

\* cpu_utilization as a fraction <<n, d>>: within [0, 100], and equal to 100.
UtilizationInRange == 0 <= cpu_utilization[1] /\ cpu_utilization[1] <= 100 * cpu_utilization[2]
UtilizationIs100 == cpu_utilization[1] = 100 * cpu_utilization[2]

\* C8 as stated: after schedule() has returned for any batch of zero or more
\* processes, cpu_utilization is in [0, 100] and is 100 exactly when idle_time == 0.
C8_UtilizationAnyBatch ==
  Done => (UtilizationInRange /\ (UtilizationIs100 <=> idle_time = 0))

\* C8 as amended: after schedule() has returned, cpu_utilization is in
\* [0, 100]; for a batch of one or more processes it is 100 exactly when
\* idle_time == 0; for the empty batch it keeps its initial value 0 (with
\* idle_time == 0).
C8_UtilizationNonEmptyBatch ==
  Done =>
    /\ UtilizationInRange
    /\ processes # <<>> => (UtilizationIs100 <=> idle_time = 0)
    /\ processes = <<>> => (cpu_utilization[1] = 0 /\ idle_time = 0)

\* A finished run with idle ticks and executed ticks.
C8_Witness ==
  /\ Done
  /\ idle_time > 0
  /\ clock > idle_time
  /\ ~UtilizationIs100

Unused(p) ==
  /\ p.remaining = p.burst
  /\ p.start = NoneVal
  /\ p.finish = NoneVal
  /\ p.execution_history = <<>>
  /\ p.state = "NEW"

\* C10: every call of schedule() the program makes (the examples, the runs of
\* the comparison, every press of the Run button) starts on unused records.
C10_EveryRunStartsOnUnusedRecords ==
  pc = "start" => \A i \in Procs : Unused(processes[i])

\* A record the validation rules exclude: burst <= 0, arrival < 0,
\* priority <= 0 or an empty id.
InvalidRecord(p) == p.burst <= 0 \/ p.arrival < 0 \/ p.priority <= 0 \/ p.pid = 0

InvalidInput ==
  \/ \E i \in Procs : InvalidRecord(processes[i])
  \/ (IsRR /\ quantum <= 0)

\* C11: a record with burst <= 0, arrival < 0, priority <= 0 or an empty id,
\* or a round-robin scheduler with quantum <= 0, is rejected at construction
\* (ValidationError), so schedule() is never entered on such input.
C11_NoRunOnInvalidInput == InvalidInput => pc = "start"

\* The stored algorithm is none the engine implements; the stored mode is
\* neither "preemptive" nor "non-preemptive".
UnknownAlgorithm == algorithm \notin CompareAlgorithms(impl)
UnknownMode == mode \notin Modes

\* C12: a scheduler whose algorithm or mode is not one of the known values
\* fails (ConfigurationError); schedule() never returns an ordinary result for
\* it, such as an empty completed list or a run as in non-preemptive mode.
C12_UnknownConfigurationNeverReturns == (UnknownAlgorithm \/ UnknownMode) => ~Done

\* The highest priority among the processes in the ready heap.
HighestReadyPriority ==
  CHOOSE q \in {processes[j].priority : j \in HeapProcs} :
    \A j \in HeapProcs : processes[j].priority <= q

\* The step takes process r off the CPU: r is READY and back in the ready
\* heap, which otherwise keeps its members, and the CPU is free.
PreemptedBy(r) ==
  /\ running' = 0
  /\ processes'[r].state = "READY"
  /\ {EntryProc(ready'[k]) : k \in 1..Len(ready')} = HeapProcs \cup {r}
  /\ Len(ready') = Len(ready) + 1

\* The step leaves process r on the CPU and the ready heap as it is.
KeptRunning(r) ==
  /\ running' = r
  /\ processes'[r].state = "RUNNING"
  /\ ready' = ready

\* C13: under Priority, at every preemption check with a process running and
\* the ready heap non-empty (after admission), the running process is
\* preempted (READY, re-inserted, CPU cleared) if and only if the mode is
\* preemptive and the highest ready priority is strictly greater than its own;
\* otherwise (equal priority included) it stays on the CPU.
C13_PriorityPreemptsIffStrictlyHigher ==
  [][(pc = "preempt" /\ algorithm = "priority" /\ running # 0 /\ ready # <<>>) =>
       IF mode = "preemptive" /\ HighestReadyPriority > processes[running].priority
       THEN PreemptedBy(running)
       ELSE KeptRunning(running)]_vars

\* Preemptive Priority: a process that executed the previous tick has just
\* been put back into the ready heap, where a process of its own priority
\* was waiting without having preempted it.
C13_Witness ==
  /\ pc = "dispatch"
  /\ algorithm = "priority"
  /\ mode = "preemptive"
  /\ running = 0
  /\ \E r \in HeapProcs :
       /\ RanAt(r, clock - 1)
       /\ processes[r].remaining > 0
       /\ \E j \in HeapProcs \ {r} :
            /\ processes[j].priority = processes[r].priority
            /\ processes[j].arrival < clock
            /\ processes[j].execution_history = <<>>

\* The smallest remaining time among the processes in the ready heap.
SmallestReadyRemaining ==
  CHOOSE q \in {processes[j].remaining : j \in HeapProcs} :
    \A j \in HeapProcs : q <= processes[j].remaining

\* Every tuple in the ready heap has the current remaining time of its process
\* as its first field.
KeysAreRemaining ==
  \A k \in 1..Len(ready) : ready[k][1] = processes[EntryProc(ready[k])].remaining

\* C14: under SJF, at every preemption check with a process running and the
\* ready heap non-empty (after admission), the running process is preempted
\* if and only if the mode is preemptive and the smallest ready remaining time
\* is strictly smaller than its current remaining time; and the ordering key
\* of every ready process always equals its current remaining time.
C14_SjfPreemptsIffStrictlyShorter ==
  /\ [](algorithm = "sjf" => KeysAreRemaining)
  /\ [][(pc = "preempt" /\ algorithm = "sjf" /\ running # 0 /\ ready # <<>>) =>
          IF mode = "preemptive" /\ SmallestReadyRemaining < processes[running].remaining
          THEN PreemptedBy(running)
          ELSE KeptRunning(running)]_vars

\* Preemptive SJF: a process that has executed part of its burst has just been
\* put back into the ready heap (its key is what remains of the burst), where
\* a process that did not preempt it, having had as much remaining as it had
\* then, is waiting.
C14_Witness ==
  /\ pc = "dispatch"
  /\ algorithm = "sjf"
  /\ mode = "preemptive"
  /\ running = 0
  /\ \E r \in HeapProcs :
       /\ RanAt(r, clock - 1)
       /\ processes[r].remaining > 0
       /\ processes[r].remaining < processes[r].burst
       /\ \E j \in HeapProcs \ {r} :
            /\ processes[j].remaining = processes[r].remaining + 1
            /\ processes[j].arrival = clock - 1
            /\ processes[j].execution_history = <<>>

\* The configurations without preemption the claim names.
NeverPreempting ==
  \/ algorithm = "fcfs"
  \/ (algorithm \in {"priority", "sjf"} /\ mode = "non-preemptive")

\* The execution history of p is the consecutive ticks from its start on.
RanWithoutGap(p) ==
  p.execution_history = [k \in 1..Len(p.execution_history) |-> p.start + k - 1]

\* C15: under non-preemptive Priority or SJF, and under FCFS in either mode, a
\* dispatched process is never interrupted: it executes on every consecutive
\* tick from its start until it finishes (until then it holds the CPU), and
\* finish == start + burst.
C15_NoInterruptionWithoutPreemption ==
  NeverPreempting =>
    \A i \in Procs :
      /\ processes[i].start # NoneVal =>
           /\ RanWithoutGap(processes[i])
           /\ processes[i].state # "TERMINATED" =>
                (running = i /\ processes[i].start + Len(processes[i].execution_history) = clock)
      /\ processes[i].start = NoneVal => processes[i].execution_history = <<>>
      /\ processes[i].state = "TERMINATED" =>
           processes[i].finish = processes[i].start + processes[i].burst

\* A finished non-preemptive Priority run in which a process of higher
\* priority arrived in the middle of the burst of another one, which went on
\* to its end.
C15_Witness ==
  /\ Done
  /\ algorithm = "priority"
  /\ mode = "non-preemptive"
  /\ Len(completed) = MaxProcs
  /\ \E i, j \in Procs :
       /\ processes[j].priority > processes[i].priority
       /\ processes[i].start < processes[j].arrival
       /\ processes[j].arrival + 1 < processes[i].finish
       /\ processes[i].finish = processes[i].start + processes[i].burst

\* The consecutive ticks t, t + 1, ..., t + n - 1.
TicksFrom(t, n) == [k \in 1..n |-> t + k - 1]

\* C16: under round-robin every dispatch executes the head of the queue for
\* exactly min(quantum, remaining) consecutive ticks, whatever arrives in the
\* meantime; afterwards the process is appended to the tail of the queue if
\* its remaining time is still positive, and otherwise it is completed with
\* finish equal to the clock at the end of the slice.
C16_RoundRobinSlice ==
  [][(pc = "rr_run" /\ ready # <<>>) =>
       LET i == Head(ready)
           p == processes[i]
           n == IF quantum < p.remaining THEN quantum ELSE p.remaining
       IN /\ processes'[i].execution_history = p.execution_history \o TicksFrom(clock, n)
          /\ clock' = clock + n
          /\ processes'[i].remaining = p.remaining - n
          /\ \A j \in Procs \ {i} : processes'[j] = processes[j]
          /\ IF p.remaining - n > 0
             THEN /\ ready' = Append(Tail(ready), i)
                  /\ completed' = completed
                  /\ processes'[i].state # "TERMINATED"
             ELSE /\ ready' = Tail(ready)
                  /\ completed' = Append(completed, i)
                  /\ processes'[i].state = "TERMINATED"
                  /\ processes'[i].finish = clock']_vars

\* A slice of two ticks has just ended with its process back at the tail of
\* the queue, while another process arrived in the middle of the slice and
\* is not yet admitted.
C16_Witness ==
  /\ pc = "rr_loop"
  /\ IsRR
  /\ Len(ready) >= 1
  /\ LET r == ready[Len(ready)]
     IN /\ RanAt(r, clock - 1)
        /\ RanAt(r, clock - 2)
        /\ processes[r].remaining > 0
  /\ \E j \in Procs : j > process_index /\ processes[j].arrival = clock - 1

\* C17: the round-robin ready queue is FIFO by arrival time, and processes
\* with equal arrival times are enqueued in ascending id order whatever the
\* input order: of two queued processes that have not executed yet, the one
\* in front has the earlier arrival or, at equal arrivals, the smaller id.
C17_RRQueueByArrivalThenId ==
  IsRR =>
    \A k, l \in 1..Len(ready) :
      (/\ k < l
       /\ processes[ready[k]].execution_history = <<>>
       /\ processes[ready[l]].execution_history = <<>>)
        => ArrivalIdBefore(ready[k], ready[l])

\* The state changes of the process lifecycle.
LifecycleSteps ==
  {<<"NEW", "READY">>, <<"READY", "RUNNING">>, <<"RUNNING", "READY">>,
   <<"RUNNING", "TERMINATED">>}

\* C18: a process changes state only along NEW -> READY, READY -> RUNNING,
\* RUNNING -> READY and RUNNING -> TERMINATED (so it is never TERMINATED
\* without having been RUNNING, and TERMINATED is final), and it is RUNNING
\* during every tick it executes.
C18_Lifecycle ==
  [][\A i \in Procs :
       /\ processes'[i].state # processes[i].state =>
            <<processes[i].state, processes'[i].state>> \in LifecycleSteps
       /\ processes'[i].execution_history # processes[i].execution_history =>
            processes[i].state = "RUNNING"]_vars

\* The ticks executed so far, by any process.
ExecutedTicks ==
  UNION {{processes[i].execution_history[k] :
            k \in 1..Len(processes[i].execution_history)} : i \in Procs}

\* The process that executed the latest executed tick; 0 if none has executed.
PreviouslyExecuted ==
  IF ExecutedTicks = {} THEN 0
  ELSE LET latest == CHOOSE t \in ExecutedTicks : \A u \in ExecutedTicks : u <= t
       IN CHOOSE i \in Procs : RanAt(i, latest)

\* What a step adds to context_switches according to the claim: one for a
\* preemption, one for a dispatch of a process other than the previously
\* executed one (none for the first dispatch), nothing otherwise.
SwitchesOfStep ==
  IF pc = "preempt" /\ running # 0 /\ running' = 0 THEN 1
  ELSE IF /\ pc = "dispatch" /\ running = 0 /\ running' # 0
          /\ PreviouslyExecuted # 0 /\ PreviouslyExecuted # running'
       THEN 1
  ELSE 0

\* C19: under the heap algorithms context_switches is the number of
\* preemptions plus the number of dispatches whose process differs from the
\* previously executed process: starting from 0, every step adds exactly that
\* (the first dispatch adds nothing, a dispatch of the same process as last
\* time adds nothing) and nothing else changes the counter.
C19_SwitchesArePreemptionsPlusDispatches ==
  /\ [](pc = "start" => context_switches = 0)
  /\ [][~IsRR => context_switches' = context_switches + SwitchesOfStep]_vars

\* A finished run in which a process was preempted and dispatched again and
\* the CPU was idle before a later dispatch.
C19_Witness ==
  /\ Done
  /\ ~IsRR
  /\ \E i \in Procs : Interrupted(processes[i])
  /\ idle_time > 0
  /\ context_switches >= 4

\* The process that executed tick t.
Occupant(t) == CHOOSE i \in Procs : RanAt(i, t)

\* The executed ticks whose occupant differs from that of the executed tick
\* before them (idle ticks in between ignored).
OccupantChanges ==
  {t \in ExecutedTicks :
     \E u \in ExecutedTicks :
       /\ u < t
       /\ \A v \in ExecutedTicks : ~(u < v /\ v < t)
       /\ Occupant(u) # Occupant(t)}

\* C20: under the heap algorithms, when schedule() has returned,
\* context_switches is the number of changes of the CPU's occupant (pairs of
\* successive executed ticks, idle ticks ignored, held by different
\* processes); a preemption hand-over counts as one switch.
C20_SwitchesAreOccupantChanges ==
  (Done /\ ~IsRR) => context_switches = Cardinality(OccupantChanges)

\* The number of log entries of the given kind.
LogCount(kind) ==
  Cardinality({k \in 1..Len(execution_log) : execution_log[k].kind = kind})

\* C21: under round-robin context_switches is the number of dispatches
\* (slices) of the run: a dispatch adds one, the first dispatch and a dispatch
\* of the process that has just been re-enqueued included, and no other step
\* (an idle tick, an admission, the return) changes the counter.
C21_RoundRobinSwitchesAreDispatches ==
  /\ [](IsRR => context_switches = LogCount("executing"))
  /\ [][IsRR =>
          context_switches' =
            context_switches + (IF pc = "rr_run" /\ ready # <<>> THEN 1 ELSE 0)]_vars

\* A finished round-robin run with an idle tick in which a process was
\* dispatched again right after its own slice.
C21_Witness ==
  /\ Done
  /\ IsRR
  /\ idle_time > 0
  /\ context_switches > Cardinality(OccupantChanges) + 1
  /\ Len(completed) >= 2

\* Process i has arrived by tick t and has not executed its whole burst
\* before tick t.
HasWorkAt(i, t) ==
  /\ processes[i].arrival <= t
  /\ Cardinality({k \in 1..Len(processes[i].execution_history) :
                    processes[i].execution_history[k] < t}) < processes[i].burst

\* C22: the scheduler is work-conserving under every algorithm and mode: a
\* tick that has gone by is counted in idle_time if and only if no process
\* that had arrived by that tick still had remaining work at it, and
\* idle_time counts each such tick once.
C22_WorkConserving ==
  /\ \A t \in 0..(clock - 1) :
       t \in idle_ticks <=> ~ \E i \in Procs : HasWorkAt(i, t)
  /\ idle_ticks \subseteq 0..(clock - 1)
  /\ idle_time = Cardinality(idle_ticks)

\* A finished run of a full batch with an idle tick between the end of one
\* process and the arrival of another, and a process that waited for the CPU.
C22_Witness ==
  /\ Done
  /\ Len(completed) = MaxProcs
  /\ \E t \in idle_ticks :
       /\ \E i \in Procs : processes[i].finish <= t
       /\ \E j \in Procs : processes[j].arrival = t + 1
  /\ \E i \in Procs : processes[i].start > processes[i].arrival

\* C23: the start of a process is set at its first dispatch, to the clock of
\* that dispatch, which is the first tick of its execution history; it is never
\* modified afterwards (not by a dispatch after a preemption or a re-enqueue);
\* and a completed process has response_time == start - arrival with
\* arrival <= start < finish.
C23_StartSetOnceAtFirstDispatch ==
  /\ [](\A i \in Procs :
          LET p == processes[i]
          IN /\ p.start = NoneVal => p.execution_history = <<>>
             /\ p.start # NoneVal =>
                  IF p.execution_history = <<>>
                  THEN running = i /\ pc = "execute" /\ p.start = clock
                  ELSE p.execution_history[1] = p.start
             /\ p.state = "TERMINATED" =>
                  /\ p.response_time = p.start - p.arrival
                  /\ p.arrival <= p.start
                  /\ p.start < p.finish)
  /\ [][\A i \in Procs :
          IF processes[i].start # NoneVal
          THEN processes'[i].start = processes[i].start
          ELSE processes'[i].start # NoneVal =>
                 /\ processes'[i].start = clock
                 /\ IF IsRR THEN pc = "rr_run" /\ Head(ready) = i
                    ELSE pc = "dispatch" /\ running = 0 /\ running' = i]_vars

\* A finished run in which a process waited for its first dispatch and was
\* later taken off the CPU and dispatched again.
C23_Witness ==
  /\ Done
  /\ \E i \in Procs :
       /\ processes[i].start > processes[i].arrival
       /\ Interrupted(processes[i])
       /\ processes[i].response_time > 0

\* The ticks of the history of p are strictly increasing (so distinct).
StrictlyIncreasing(h) == \A k \in 1..(Len(h) - 1) : h[k] < h[k + 1]

\* C24: at every iteration boundary of the scheduling loop (and between the
\* phases of an iteration) every process has 0 <= remaining <= burst and
\* len(execution_history) == burst - remaining, its history ticks strictly
\* increasing; so a terminated process has exactly burst history entries, and
\* finish is set exactly when remaining == 0.
C24_RemainingAndHistory ==
  \A i \in Procs :
    LET p == processes[i]
    IN /\ 0 <= p.remaining
       /\ p.remaining <= p.burst
       /\ Len(p.execution_history) = p.burst - p.remaining
       /\ StrictlyIncreasing(p.execution_history)
       /\ p.state = "TERMINATED" => Len(p.execution_history) = p.burst
       /\ p.finish # NoneVal <=> p.remaining = 0
       /\ p.state = "TERMINATED" <=> p.remaining = 0

\* An iteration boundary at which one process has terminated and another,
\* taken off the CPU in the middle of its burst, is waiting.
C24_Witness ==
  /\ pc \in {"loop", "rr_loop"}
  /\ \E i \in Procs :
       /\ processes[i].state = "TERMINATED"
       /\ Len(processes[i].execution_history) = MaxBurst
  /\ \E j \in Procs :
       /\ processes[j].remaining > 0
       /\ processes[j].remaining < processes[j].burst
       /\ j # running

\* C25: the execution log of a finished run is complete, in both files and
\* for every algorithm: one entry for each arrival, each idle tick and each
\* completion (the number of idle entries is idle_time, the number of
\* completion entries is the number of completed processes), one dispatch
\* entry at least for every completed process and one preemption or
\* quantum-expiry entry for every time a process was taken off the CPU.
C25_LogComplete ==
  Done =>
    /\ LogCount("arrived") = Len(processes)
    /\ LogCount("idle") = idle_time
    /\ LogCount("completed") + LogCount("finished") = Len(completed)
    /\ LogCount("started") + LogCount("executing") >= Len(completed)
    /\ (\E i \in Procs : Interrupted(processes[i])) => LogCount("preempted") > 0

\* The processes that have arrived by the current clock and are unfinished.
ArrivedUnfinished ==
  {j \in Procs : processes[j].arrival <= clock /\ processes[j].remaining > 0}

\* C26: in preemptive mode there is no inversion at an executed tick: when
\* a process is about to execute tick t, under Priority its priority is >=
\* that of every process that has arrived by t and is unfinished, and under
\* SJF its remaining time is <= the remaining time of every such process.
C26_NoInversion ==
  (pc = "execute" /\ running # 0 /\ mode = "preemptive") =>
    /\ algorithm = "priority" =>
         \A j \in ArrivedUnfinished :
           processes[running].priority >= processes[j].priority
    /\ algorithm = "sjf" =>
         \A j \in ArrivedUnfinished :
           processes[running].remaining <= processes[j].remaining

\* Preemptive SJF: the process about to execute has taken the CPU from a
\* longer one that executed the tick before, while a third one is waiting.
C26_Witness ==
  /\ pc = "execute"
  /\ running # 0
  /\ mode = "preemptive"
  /\ algorithm = "sjf"
  /\ Cardinality(ArrivedUnfinished) = MaxProcs
  /\ \E j \in HeapProcs :
       /\ RanAt(j, clock - 1)
       /\ processes[j].remaining > processes[running].remaining

\* The process that executed the previous tick is back in the ready heap
\* with work left: it has been preempted at the current tick.
PreemptedNow == {j \in HeapProcs : RanAt(j, clock - 1) /\ processes[j].remaining > 0}

\* C27: under preemptive Priority or SJF a preemption happens only at a tick
\* at which a process arrives: the process dispatched at the tick of a
\* preemption has arrival == that tick, so a process that was already waiting
\* in the ready heap never causes a preemption.
C27_PreemptionOnlyByArrival ==
  [][(/\ pc = "dispatch"
      /\ algorithm \in {"priority", "sjf"}
      /\ running = 0
      /\ PreemptedNow # {}) =>
       /\ running' # 0
       /\ processes[running'].arrival = clock]_vars

\* A process that arrived at this tick has just taken the CPU from the one
\* that executed the tick before, while a process that arrived earlier and has
\* not executed yet keeps waiting.
C27_Witness ==
  /\ pc = "execute"
  /\ algorithm \in {"priority", "sjf"}
  /\ running # 0
  /\ processes[running].arrival = clock
  /\ PreemptedNow # {}
  /\ \E w \in HeapProcs :
       /\ processes[w].arrival < clock
       /\ processes[w].execution_history = <<>>

\* C28: for every batch of valid fresh records, every mode and every
\* algorithm in {priority, sjf, fcfs}, schedule() of scheduler_code.py and
\* _heap_based_schedule of scheduler_code_rr.py produce the same completion
\* order, the same start, finish, turnaround, response_time and execution
\* history of each process, and the same idle_time and context_switches.
C28_HeapLoopsAgree ==
  (Done /\ impl = 2 /\ run_no = 2) =>
    LET o == prev.outcome
    IN /\ o.returned
       /\ Len(completed) = Len(o.completed)
       /\ \A k \in 1..Len(completed) :
            LET p == processes[completed[k]]
                q == o.completed[k]
            IN /\ p.pid = q.pid
               /\ p.start = q.start
               /\ p.finish = q.finish
               /\ p.turnaround = q.turnaround
               /\ p.response_time = q.response_time
       /\ CompletedHistories = prev.histories
       /\ idle_time = o.idle_time
       /\ context_switches = o.context_switches

\* Both runs of a full batch have ended, with a preemption, an idle tick and
\* a process whose waiting time the two files report differently.
C28_Witness ==
  /\ Done
  /\ impl = 2
  /\ run_no = 2
  /\ Len(completed) = MaxProcs
  /\ idle_time > 0
  /\ \E i \in Procs : Interrupted(processes[i])
  /\ \E k \in 1..Len(completed) :
       processes[completed[k]].waiting # prev.outcome.completed[k].waiting

\* The process at position k of the ready structure (heap or queue).
ReadyProcAt(k) == IF IsRR THEN ready[k] ELSE EntryProc(ready[k])

ReadyProcs == {ReadyProcAt(k) : k \in 1..Len(ready)}

\* C29: single CPU: at every point of a run at most one process has state
\* RUNNING (the one holding the CPU), and a process waiting in the ready
\* structure is not the one holding the CPU, is not RUNNING and is in the
\* ready structure only once.
C29_SingleCpu ==
  /\ Cardinality({i \in Procs : processes[i].state = "RUNNING"}) <= 1
  /\ \A i \in Procs : processes[i].state = "RUNNING" => running = i
  /\ running \notin ReadyProcs
  /\ \A i \in ReadyProcs : processes[i].state = "READY"
  /\ \A k, l \in 1..Len(ready) : k # l => ReadyProcAt(k) # ReadyProcAt(l)

\* A process holds the CPU while all the others wait in the ready heap, one
\* of them after having been taken off the CPU.
C29_Witness ==
  /\ pc = "execute"
  /\ running # 0
  /\ processes[running].state = "RUNNING"
  /\ Cardinality(ReadyProcs) = MaxProcs - 1
  /\ \E j \in ReadyProcs : processes[j].execution_history # <<>>

\* The clock at which process i was put where it stands in the round-robin
\* queue: the end of its latest slice if it has executed, else the tick of its
\* admission (the tick of its "arrived" log entry).
PlacedAt(i) ==
  LET h == processes[i].execution_history
  IN IF h # <<>> THEN h[Len(h)] + 1
     ELSE LET k == CHOOSE k \in 1..Len(execution_log) :
                     /\ execution_log[k].kind = "arrived"
                     /\ execution_log[k].pid = processes[i].pid
          IN execution_log[k].tick

\* C30: round-robin gives bounded waiting. In a batch of n processes with
\* quantum Q the queue is served in the order in which the processes were
\* placed in it (on admission or on re-enqueue): a step takes the head off and
\* appends behind the tail only, so no process is dispatched twice while a
\* process queued before its re-enqueue is still waiting; and a queued
\* process has never waited more than (n - 1) * Q ticks since it was placed.
C30_RoundRobinBoundedWaiting ==
  /\ [](IsRR =>
          /\ \A k, l \in 1..Len(ready) :
               k < l => PlacedAt(ready[k]) <= PlacedAt(ready[l])
          /\ \A k \in 1..Len(ready) :
               clock - PlacedAt(ready[k]) <= (Len(processes) - 1) * quantum)
  /\ [][IsRR =>
          \E m \in 0..Len(processes) :
            \/ (Len(ready') = Len(ready) + m /\ SubSeq(ready', 1, Len(ready)) = ready)
            \/ /\ pc = "rr_run" /\ ready # <<>> /\ m <= 1
               /\ Len(ready') = Len(ready) - 1 + m
               /\ SubSeq(ready', 1, Len(ready) - 1) = Tail(ready)
               /\ m = 1 => ready'[Len(ready')] = Head(ready)]_vars

\* The head of a queue of all n > 1 processes is about to be dispatched
\* after having waited exactly (n - 1) * Q ticks, Q being the largest quantum.
C30_Witness ==
  /\ pc = "rr_run"
  /\ IsRR
  /\ quantum = MaxQuantum
  /\ Len(processes) >= 2
  /\ Len(ready) = Len(processes)
  /\ clock - PlacedAt(Head(ready)) = (Len(processes) - 1) * quantum

\* The positions of the log entries of the given kinds about the given pid.
LogPositions(kinds, pid) ==
  {k \in 1..Len(execution_log) :
     execution_log[k].kind \in kinds /\ execution_log[k].pid = pid}

ArrivalKinds == {"arrived"}
DispatchKinds == {"started", "executing"}
CompletionKinds == {"completed", "finished"}

\* C31: in every run, at every moment, the ticks of the execution log are
\* non-decreasing in log order; every dispatch entry of a process comes
\* after its (single) arrival entry and its (single) completion entry comes
\* after its first dispatch entry and is the last entry about it; and when a
\* loop that logs dispatches (scheduler_code.py, round-robin) has returned,
\* every process has the three entries.
C31_LogOrdered ==
  /\ \A k, l \in 1..Len(execution_log) :
       k < l => execution_log[k].tick <= execution_log[l].tick
  /\ \A i \in Procs :
       LET pid == processes[i].pid
           arr == LogPositions(ArrivalKinds, pid)
           dis == LogPositions(DispatchKinds, pid)
           fin == LogPositions(CompletionKinds, pid)
           any == LogPositions(ArrivalKinds \cup DispatchKinds \cup CompletionKinds
                                 \cup {"preempted"}, pid)
       IN /\ Cardinality(arr) <= 1
          /\ Cardinality(fin) <= 1
          /\ \A d \in dis : \E a \in arr : a < d
          /\ \A f \in fin : (\E d \in dis : d < f) /\ (\A e \in any : e <= f)
          /\ (Done /\ (impl = 1 \/ IsRR)) => arr # {} /\ dis # {} /\ fin # {}

\* A returned run of scheduler_code.py whose log holds an idle tick, a
\* preemption and the three entries of at least two processes.
C31_Witness ==
  /\ Done /\ impl = 1 /\ Len(processes) >= 2 /\ Len(completed) = Len(processes)
  /\ LogCount("idle") > 0 /\ LogCount("preempted") > 0
  /\ \A i \in Procs : LogPositions(CompletionKinds, processes[i].pid) # {}

\* The scheduler of worker w, whether it is the one stepping or not.
SchedulerOf(w) == IF w = active THEN SchedulerState ELSE workers[w].sched

\* Worker w is inside scheduler.schedule(): called and not yet returned.
Operating(w) == InSchedule(w) /\ SchedulerOf(w).pc # "done"

\* C32: in the GUI at most one scheduling run is active at any time: a press
\* of Run while an earlier worker thread is started and unfinished starts no
\* second run, so there are never two workers whose ProcessScheduler
\* instances are both inside schedule() on the records of self.processes.
C32_OneRunAtATime ==
  \A v, w \in Workers : (Operating(v) /\ Operating(w)) => v = w

====
